---- MODULE Spec2Model ----
(***************************************************************************)
(* Model of the customer-bill engine of billsify-backend:                  *)
(*   src/models/CustomerBill.js   schema, pre('save') hook, sendWhatsApp   *)
(*   src/routes/affiliate.js      POST /bills (both copies of the router)  *)
(*                                                                         *)
(* A document is saved in two steps, as the code suspends twice: the       *)
(* pre-save hook (whose only await is the lookup of the day's last bill;   *)
(* everything after it runs without suspension on the in-memory document)  *)
(* and the write to the collection, where the unique index on billNumber   *)
(* is enforced.  The hook's completion callback can be invoked several     *)
(* times by the code; the calls are recorded in order and the save is      *)
(* settled by the first one.                                               *)
(*                                                                         *)
(* The schema's path validators (required, min) and casts are outside the   *)
(* model: fields hold numbers (or, in SpecCoerce, the value Undefined of a *)
(* missing field), and the hook's own checks are the only ones between     *)
(* save() and the write.  Of POST /bills the checks of the phone           *)
(* number and of the item names are taken to pass; the inventory steps are *)
(* not part of this model.                                                 *)
(*                                                                         *)
(* Amounts are integers (currency units); bill numbers are sequences of    *)
(* one-character strings so that slice, parseInt, padStart and the string  *)
(* order of the sort are computed as the code computes them.               *)
(***************************************************************************)
EXTENDS Integers, Sequences, FiniteSets, TLC

VARIABLES store, doc, pc, nextCalls, lookup, error, today, nextId, breakdown,
          inventory, request, users, affiliateCheck

vars ==
  <<store, doc, pc, nextCalls, lookup, error, today, nextId, breakdown,
    inventory, request, users, affiliateCheck>>

\* The Inventory and User collections and what a request holds of them.
sideVars == <<inventory, request, users, affiliateCheck>>

----------------------------------------------------------------------------
(* Bounds *)

NumProcs == 2
MaxBills == 2
MaxItems == 2
NumDays == 2

Procs == 1..NumProcs

----------------------------------------------------------------------------
(* Strings as sequences of characters *)

Alphabet == <<"0", "1", "2", "3", "4", "5", "6", "7", "8", "9", "B", "I", "L">>

Digits == {"0", "1", "2", "3", "4", "5", "6", "7", "8", "9"}

CharCode(c) == CHOOSE i \in 1..Len(Alphabet) : Alphabet[i] = c

DigitChar(n) == Alphabet[n + 1]

DigitVal(c) == CharCode(c) - 1

RECURSIVE StrLess(_, _)
StrLess(a, b) ==
  IF b = <<>> THEN FALSE
  ELSE IF a = <<>> THEN TRUE
  ELSE IF Head(a) # Head(b) THEN CharCode(Head(a)) < CharCode(Head(b))
  ELSE StrLess(Tail(a), Tail(b))

RECURSIVE NumToString(_)
NumToString(n) ==
  IF n < 10 THEN <<DigitChar(n)>>
  ELSE NumToString(n \div 10) \o <<DigitChar(n % 10)>>

RECURSIVE PadStart(_, _, _)
PadStart(s, len, ch) ==
  IF Len(s) >= len THEN s ELSE PadStart(<<ch>> \o s, len, ch)

SliceLast(s, k) ==
  IF Len(s) <= k THEN s ELSE SubSeq(s, Len(s) - k + 1, Len(s))

StartsWith(s, prefix) ==
  Len(s) >= Len(prefix) /\ SubSeq(s, 1, Len(prefix)) = prefix

RECURSIVE LeadingDigits(_)
LeadingDigits(s) ==
  IF s = <<>> \/ Head(s) \notin Digits THEN <<>>
  ELSE <<Head(s)>> \o LeadingDigits(Tail(s))

RECURSIVE DigitsValue(_)
DigitsValue(ds) ==
  IF ds = <<>> THEN 0
  ELSE 10 * DigitsValue(SubSeq(ds, 1, Len(ds) - 1)) + DigitVal(ds[Len(ds)])

ParseIntIsNaN(s) == LeadingDigits(s) = <<>>

ParseInt(s) == DigitsValue(LeadingDigits(s))

Max0(x) == IF x > 0 THEN x ELSE 0

----------------------------------------------------------------------------
(* Dates *)

DateOf(t) == [year |-> 2025, month |-> 5, date |-> 14 + t]

DateStr(t) ==
  NumToString(DateOf(t).year)
    \o PadStart(NumToString(DateOf(t).month + 1), 2, "0")
    \o PadStart(NumToString(DateOf(t).date), 2, "0")

BillPrefix(t) == <<"B", "I", "L", "L">> \o DateStr(t)

----------------------------------------------------------------------------
(* Values *)

Undefined == 0 - 1000000

\* A missing value is passed on as it is.
ParseFloatUncoerced(x) == x

ParseFloatOrZero(x) == IF x = Undefined THEN 0 ELSE x

OK == "ok"
ErrEmpty == "At least one item is required for bill creation"
ErrItem == "Invalid item data: quantity must be > 0 and unitPrice must be >= 0"
ErrBillNumber == "Bill number generation failed"
ErrSubtotal == "Invalid subtotal calculated"
ErrTotal == "Invalid total amount calculated"
ErrDuplicateKey == "E11000 duplicate key"
NoError == "none"

NoNumber == <<>>

NoDoc ==
  [id |-> 0, isNew |-> FALSE, billNumber |-> NoNumber, items |-> <<>>,
   subtotal |-> Undefined, discountAmount |-> 0,
   totalItemDiscounts |-> 0, totalAmount |-> Undefined,
   whatsappSent |-> FALSE]

NewDocument(id, data) ==
  [id |-> id, isNew |-> TRUE, billNumber |-> data.billNumber,
   items |-> data.items,
   subtotal |-> Undefined, discountAmount |-> data.discountAmount,
   totalItemDiscounts |-> 0, totalAmount |-> Undefined,
   whatsappSent |-> FALSE]

----------------------------------------------------------------------------
(* Sequence allocator: pre('save'), lines 153-185 *)

ShouldGenerateUnguarded(d) == TRUE

\* Only isNew is tested.
ShouldGenerateIgnoresNumber(d) == d.isNew

ShouldGenerate(d) == d.isNew /\ d.billNumber = NoNumber

TodaysNumbers(st, t) ==
  {st[i].billNumber : i \in {j \in DOMAIN st : StartsWith(st[j].billNumber, BillPrefix(t))}}

LastBillNumber(st, t) ==
  IF TodaysNumbers(st, t) = {} THEN NoNumber
  ELSE CHOOSE n \in TodaysNumbers(st, t) :
         \A m \in TodaysNumbers(st, t) : m = n \/ StrLess(m, n)

NextSequenceNoIncrement(last) ==
  IF last = NoNumber THEN 1
  ELSE IF ParseIntIsNaN(SliceLast(last, 4)) THEN 1
  ELSE ParseInt(SliceLast(last, 4))

NextSequence(last) ==
  IF last = NoNumber THEN 1
  ELSE IF ParseIntIsNaN(SliceLast(last, 4)) THEN 1
  ELSE ParseInt(SliceLast(last, 4)) + 1

SequenceNumber(st, t) ==
  BillPrefix(t) \o PadStart(NumToString(NextSequence(LastBillNumber(st, t))), 4, "0")

\* padStart is left out.
FallbackNumberUnpadded(t, rnd) == BillPrefix(t) \o NumToString(rnd)

FallbackNumber(t, rnd) ==
  BillPrefix(t) \o PadStart(NumToString(rnd), 4, "0")

AllocateBillNumber(d, st, t, ok, rnd) ==
  IF ShouldGenerate(d)
  THEN [d EXCEPT !.billNumber =
          IF ok THEN SequenceNumber(st, t) ELSE FallbackNumber(t, rnd)]
  ELSE d

----------------------------------------------------------------------------
(* Line items and totals: pre('save'), lines 187-266 *)

ItemsMissingUnchecked(items) == FALSE

ItemsMissing(items) == Len(items) = 0

ItemInvalid(quantity, unitPrice) == quantity <= 0 \/ unitPrice < 0

ItemGrossUnitOnly(quantity, unitPrice) == unitPrice

ItemGross(quantity, unitPrice) == quantity * unitPrice

NetAmountUnclamped(itemGross, itemDiscount) == itemGross - itemDiscount

\* The discount is not taken off the item.
NetAmountIgnoresDiscount(itemGross, itemDiscount) == itemGross

NetAmount(itemGross, itemDiscount) == Max0(itemGross - itemDiscount)

\* The totalPrice an item arrives with is kept.
RECURSIVE ForEachItemKeepsTotalPrice(_, _, _)
ForEachItemKeepsTotalPrice(items, i, acc) ==
  IF i > Len(items) THEN acc
  ELSE
    LET quantity == ParseFloatOrZero(items[i].quantity)
        unitPrice == ParseFloatOrZero(items[i].unitPrice)
        itemDiscount == ParseFloatOrZero(items[i].discount)
        itemGross == ItemGross(quantity, unitPrice)
    IN IF ItemInvalid(quantity, unitPrice)
       THEN ForEachItemKeepsTotalPrice(items, i + 1,
              [acc EXCEPT !.calls = Append(@, ErrItem)])
       ELSE ForEachItemKeepsTotalPrice(items, i + 1,
              [acc EXCEPT !.itemSubtotal = @ + itemGross,
                          !.totalItemDiscounts = @ + itemDiscount])

\* The discount of an item replaces the running sum of discounts.
RECURSIVE ForEachItemLastDiscount(_, _, _)
ForEachItemLastDiscount(items, i, acc) ==
  IF i > Len(items) THEN acc
  ELSE
    LET quantity == ParseFloatOrZero(items[i].quantity)
        unitPrice == ParseFloatOrZero(items[i].unitPrice)
        itemDiscount == ParseFloatOrZero(items[i].discount)
        itemGross == ItemGross(quantity, unitPrice)
    IN IF ItemInvalid(quantity, unitPrice)
       THEN ForEachItemLastDiscount(items, i + 1,
              [acc EXCEPT !.calls = Append(@, ErrItem)])
       ELSE ForEachItemLastDiscount(items, i + 1,
              [acc EXCEPT !.items[i].totalPrice = NetAmount(itemGross, itemDiscount),
                          !.itemSubtotal = @ + itemGross,
                          !.totalItemDiscounts = itemDiscount])

RECURSIVE ForEachItem(_, _, _)
ForEachItem(items, i, acc) ==
  IF i > Len(items) THEN acc
  ELSE
    LET quantity == ParseFloatOrZero(items[i].quantity)
        unitPrice == ParseFloatOrZero(items[i].unitPrice)
        itemDiscount == ParseFloatOrZero(items[i].discount)
        itemGross == ItemGross(quantity, unitPrice)
    IN IF ItemInvalid(quantity, unitPrice)
       THEN ForEachItem(items, i + 1,
              [acc EXCEPT !.calls = Append(@, ErrItem)])
       ELSE ForEachItem(items, i + 1,
              [acc EXCEPT !.items[i].totalPrice = NetAmount(itemGross, itemDiscount),
                          !.itemSubtotal = @ + itemGross,
                          !.totalItemDiscounts = @ + itemDiscount])

FinalTotalIgnoresAdditional(subtotal, totalItemDiscounts, additionalDiscount) ==
  Max0(subtotal - totalItemDiscounts)

\* Math.max(0, ...) is left out.
FinalTotalUnclamped(subtotal, totalItemDiscounts, additionalDiscount) ==
  subtotal - totalItemDiscounts - additionalDiscount

\* The item discounts are not taken off the total.
FinalTotalIgnoresItemDiscounts(subtotal, totalItemDiscounts, additionalDiscount) ==
  Max0(subtotal - additionalDiscount)

FinalTotal(subtotal, totalItemDiscounts, additionalDiscount) ==
  Max0(subtotal - totalItemDiscounts - additionalDiscount)

\* The billNumber is not looked at.
RequiredFieldsErrorNoNumber(d) ==
  IF d.subtotal = Undefined \/ d.subtotal < 0 THEN ErrSubtotal
  ELSE IF d.totalAmount = Undefined \/ d.totalAmount < 0 THEN ErrTotal
  ELSE OK

RequiredFieldsError(d) ==
  IF d.billNumber = NoNumber THEN ErrBillNumber
  ELSE IF d.subtotal = Undefined \/ d.subtotal < 0 THEN ErrSubtotal
  ELSE IF d.totalAmount = Undefined \/ d.totalAmount < 0 THEN ErrTotal
  ELSE OK

\* The running totals start from the document's own fields.
CalculateTotalsAccumulating(d) ==
  IF ItemsMissing(d.items) THEN [doc |-> d, calls |-> <<ErrEmpty>>]
  ELSE
    LET acc == ForEachItem(d.items, 1,
                 [items |-> d.items,
                  itemSubtotal |-> ParseFloatOrZero(d.subtotal),
                  totalItemDiscounts |-> d.totalItemDiscounts, calls |-> <<>>])
        additionalDiscount == ParseFloatOrZero(d.discountAmount)
        d2 == [d EXCEPT !.items = acc.items,
                        !.subtotal = acc.itemSubtotal,
                        !.totalItemDiscounts = acc.totalItemDiscounts,
                        !.discountAmount = additionalDiscount,
                        !.totalAmount =
                           FinalTotal(acc.itemSubtotal, acc.totalItemDiscounts,
                                      additionalDiscount)]
    IN [doc |-> d2, calls |-> Append(acc.calls, RequiredFieldsError(d2))]

CalculateTotals(d) ==
  IF ItemsMissing(d.items) THEN [doc |-> d, calls |-> <<ErrEmpty>>]
  ELSE
    LET acc == ForEachItem(d.items, 1,
                 [items |-> d.items, itemSubtotal |-> 0,
                  totalItemDiscounts |-> 0, calls |-> <<>>])
        additionalDiscount == ParseFloatOrZero(d.discountAmount)
        d2 == [d EXCEPT !.items = acc.items,
                        !.subtotal = acc.itemSubtotal,
                        !.totalItemDiscounts = acc.totalItemDiscounts,
                        !.discountAmount = additionalDiscount,
                        !.totalAmount =
                           FinalTotal(acc.itemSubtotal, acc.totalItemDiscounts,
                                      additionalDiscount)]
    IN [doc |-> d2, calls |-> Append(acc.calls, RequiredFieldsError(d2))]

PreSaveHook(d, st, t, ok, rnd) ==
  CalculateTotals(AllocateBillNumber(d, st, t, ok, rnd))

\* The save is settled by the first invocation of the completion callback.
HookResult(calls) == Head(calls)

----------------------------------------------------------------------------
(* getBillBreakdown: lines 291-310 *)

OrZero(x) == IF x = Undefined THEN 0 ELSE x

\* netAmount is derived again from the item instead of read from it.
BreakdownItemRecomputed(item) ==
  [quantity |-> item.quantity, unitPrice |-> item.unitPrice,
   grossAmount |-> item.quantity * item.unitPrice,
   itemDiscount |-> OrZero(item.discount),
   netAmount |-> item.quantity * item.unitPrice - OrZero(item.discount)]

BreakdownItem(item) ==
  [quantity |-> item.quantity, unitPrice |-> item.unitPrice,
   grossAmount |-> item.quantity * item.unitPrice,
   itemDiscount |-> OrZero(item.discount),
   netAmount |-> item.totalPrice]

GetBillBreakdown(d) ==
  [items |-> [i \in 1..Len(d.items) |-> BreakdownItem(d.items[i])],
   subtotal |-> d.subtotal,
   totalItemDiscounts |-> d.totalItemDiscounts,
   additionalDiscount |-> OrZero(d.discountAmount),
   totalDiscounts |-> d.totalItemDiscounts + OrZero(d.discountAmount),
   finalTotal |-> d.totalAmount]

NoBreakdown ==
  [items |-> <<>>, subtotal |-> Undefined, totalItemDiscounts |-> Undefined,
   additionalDiscount |-> Undefined, totalDiscounts |-> Undefined,
   finalTotal |-> Undefined]

----------------------------------------------------------------------------
(* Unique index on billNumber: schema, lines 6-11 *)

DuplicateKeyUnchecked(st, d) == FALSE

DuplicateKey(st, d) ==
  \E i \in DOMAIN st : i # d.id /\ st[i].billNumber = d.billNumber

Stored(d) == [d EXCEPT !.isNew = FALSE]

WriteDocument(st, d) ==
  [i \in DOMAIN st \cup {d.id} |-> IF i = d.id THEN Stored(d) ELSE st[i]]

----------------------------------------------------------------------------
(* POST /bills: routes/affiliate.js, lines 208-470 *)

RouteItemsMissing(items) == Len(items) = 0

\* The discount of an item is not checked.
RouteItemErrorNoDiscount(item) ==
  IF item.quantity <= 0 THEN "Quantity must be greater than 0"
  ELSE IF item.unitPrice < 0 THEN "Unit price cannot be negative"
  ELSE OK

RouteItemError(item) ==
  IF item.quantity <= 0 THEN "Quantity must be greater than 0"
  ELSE IF item.unitPrice < 0 THEN "Unit price cannot be negative"
  ELSE IF item.discount < 0 THEN "Discount cannot be negative"
  ELSE OK

FirstBadItem(items) ==
  IF \E i \in 1..Len(items) : RouteItemError(items[i]) # OK
  THEN CHOOSE i \in 1..Len(items) :
         /\ RouteItemError(items[i]) # OK
         /\ \A j \in 1..(i - 1) : RouteItemError(items[j]) = OK
  ELSE 0

Err(message, item) == [message |-> message, item |-> item]

RouteValidation(body) ==
  IF RouteItemsMissing(body.items) THEN Err("At least one item is required", 0)
  ELSE IF FirstBadItem(body.items) # 0
  THEN Err(RouteItemError(body.items[FirstBadItem(body.items)]),
           FirstBadItem(body.items))
  ELSE IF body.discountAmount < 0
  THEN Err("Additional discount cannot be negative", 0)
  ELSE Err(OK, 0)

ProcessedItem(item) ==
  [quantity |-> item.quantity, unitPrice |-> item.unitPrice,
   discount |-> item.discount,
   totalPrice |-> Max0(item.quantity * item.unitPrice - item.discount)]

ProcessedItems(items) == [i \in 1..Len(items) |-> ProcessedItem(items[i])]

CustomerBillData(body) ==
  [billNumber |-> NoNumber, items |-> ProcessedItems(body.items),
   discountAmount |-> body.discountAmount]

----------------------------------------------------------------------------
(* POST /bills, second copy of the router: routes/affiliate.js, lines 909-1058 *)

\* !item.quantity and !item.unitPrice are true of 0.
RouteItemError2(item) ==
  IF item.quantity = 0 \/ item.unitPrice = 0
  THEN "Each item must have name, quantity, and unit price"
  ELSE IF item.quantity <= 0 \/ item.unitPrice < 0
  THEN "Quantity must be positive and price cannot be negative"
  ELSE IF item.discount # 0 /\ item.discount < 0
  THEN "Discount cannot be negative"
  ELSE OK

FirstBadItem2(items) ==
  IF \E i \in 1..Len(items) : RouteItemError2(items[i]) # OK
  THEN CHOOSE i \in 1..Len(items) :
         /\ RouteItemError2(items[i]) # OK
         /\ \A j \in 1..(i - 1) : RouteItemError2(items[j]) = OK
  ELSE 0

\* The answers of this copy name no item, and discountAmount is not checked.
RouteValidation2(body) ==
  IF RouteItemsMissing(body.items)
  THEN Err("Customer phone number and items are required", 0)
  ELSE IF FirstBadItem2(body.items) # 0
  THEN Err(RouteItemError2(body.items[FirstBadItem2(body.items)]), 0)
  ELSE Err(OK, 0)

----------------------------------------------------------------------------
(* Inputs *)

Item(q, u, d) ==
  [quantity |-> q, unitPrice |-> u, discount |-> d, totalPrice |-> 999]

ItemA == Item(2, 10, 0)
ItemB == Item(1, 5, 1)
ItemC == Item(2, 10, 100)
ItemX == Item(0, 5, 0)
ItemY == Item(1, 0 - 1, 0)
ItemN == Item(1, 5, 0 - 1)
ItemZ == Item(3, 0, 0)

ItemPool == {ItemA, ItemB, ItemC, ItemX, ItemY, ItemN, ItemZ}

ItemLists == UNION {[1..n -> ItemPool] : n \in 0..MaxItems}

Discounts == {0, 2, 30, 0 - 5}

\* Every bill of up to MaxItems pooled items, with no identifier.
WideData ==
  [billNumber : {NoNumber}, items : ItemLists, discountAmount : Discounts]

\* A few bills, used where several documents are in flight at once.
NarrowBodies ==
  { [items |-> <<ItemA, ItemB>>, discountAmount |-> 2],
    [items |-> <<ItemA, ItemX>>, discountAmount |-> 0] }

UpdateBodies ==
  { [items |-> <<ItemC>>, discountAmount |-> 30] }

\* The same, with a bill whose first item is invalid.
WideUpdateBodies ==
  UpdateBodies \cup { [items |-> <<ItemX, ItemA>>, discountAmount |-> 0] }

\* Identifiers a caller of the model may give to a new bill.
SuppliedNumbers(t) ==
  {BillPrefix(t) \o <<"9", "9", "9", "9">>, <<"B", "I", "L", "L", "1">>}

SuppliedData(t) ==
  [billNumber : SuppliedNumbers(t), items : {<<ItemA, ItemB>>, <<ItemX>>},
   discountAmount : {2}]

\* Items that lack a quantity, a unitPrice or a discount.
ItemMQ == Item(Undefined, 5, 0)
ItemMU == Item(2, Undefined, 1)
ItemMD == Item(2, 10, Undefined)

CoercePool == {ItemA, ItemB, ItemMQ, ItemMU, ItemMD}

CoerceData ==
  [billNumber : {NoNumber},
   items : UNION {[1..n -> CoercePool] : n \in 0..MaxItems},
   discountAmount : {0, 2, Undefined}]

\* Outcomes of Math.floor(Math.random() * 10000) that are explored.
RandomOutcomes == {1, 7}

\* The same for one caller, with both ends of the range.
WideRandomOutcomes == {0, 7, 1234, 9999}

----------------------------------------------------------------------------
(* Inventory: models/Inventory.js, and its use by POST /bills *)

\* availableQuantity of the one inventory record when the requests start.
InitialStock == 3

InvRecord(availableQuantity, totalSold) ==
  [availableQuantity |-> availableQuantity, totalSold |-> totalSold]

\* Record 1 exists; no record has the id MissingId.
InitialInventory == <<InvRecord(InitialStock, 0)>>

MissingId == 2

NoRecord == InvRecord(Undefined, Undefined)

FindById(inv, id) == IF id \in DOMAIN inv THEN inv[id] ELSE NoRecord

UpdateStock(record, quantitySold) ==
  InvRecord(Max0(record.availableQuantity - quantitySold),
            record.totalSold + quantitySold)

ErrStockMissing == "not found in inventory"
ErrStockInsufficient == "Insufficient stock"

\* The items of a request that carry an inventoryItemId, in order.
Lines(body) ==
  LET all == [i \in 1..Len(body.items) |->
                [inventoryItemId |-> body.links[i],
                 quantity |-> body.items[i].quantity]]
  IN SelectSeq(all, LAMBDA line : line.inventoryItemId # 0)

LineError(copy, line, inv) ==
  IF FindById(inv, line.inventoryItemId) = NoRecord
  THEN IF copy = 1 THEN ErrStockMissing ELSE ErrStockInsufficient
  ELSE IF FindById(inv, line.inventoryItemId).availableQuantity < line.quantity
  THEN ErrStockInsufficient
  ELSE OK

FirstBadLine(copy, lines, inv) ==
  IF \E i \in 1..Len(lines) : LineError(copy, lines[i], inv) # OK
  THEN CHOOSE i \in 1..Len(lines) :
         /\ LineError(copy, lines[i], inv) # OK
         /\ \A j \in 1..(i - 1) : LineError(copy, lines[j], inv) = OK
  ELSE 0

\* No line is checked against the stock.
StockErrorUnchecked(copy, managed, lines, inv) == OK

StockError(copy, managed, lines, inv) ==
  IF managed /\ FirstBadLine(copy, lines, inv) # 0
  THEN LineError(copy, lines[FirstBadLine(copy, lines, inv)], inv)
  ELSE OK

\* What a request in progress holds: the copy of the router that handles
\* it, its inventory lines, the position k of the update loop, the record
\* read for line k, whether a failure has ended the handler, and the status
\* answered.  A failure that is only logged leaves no trace here.
NoRequest ==
  [copy |-> 0, managed |-> FALSE, lines |-> <<>>, k |-> 0, held |-> NoRecord,
   aborted |-> FALSE, status |-> 0]

NewRequest(copy, body, status) ==
  [copy |-> copy, managed |-> body.managed, lines |-> Lines(body), k |-> 1,
   held |-> NoRecord, aborted |-> FALSE, status |-> status]

----------------------------------------------------------------------------
(* Users: routes/auth.js, and checkAffiliate of routes/affiliate.js *)

MaxUsers == 2

User(userType, status, approvalStatus, token) ==
  [userType |-> userType, status |-> status,
   approvalStatus |-> approvalStatus, token |-> token]

\* A super admin exists; no route creates one.
InitialUsers == <<User("superadmin", "active", "pending", TRUE)>>

NoCheck == [user |-> 0, code |-> 0]

CheckAffiliate(us, id) ==
  IF id \in DOMAIN us /\ us[id].userType = "affiliate"
       /\ us[id].status = "active"
  THEN 200 ELSE 403

----------------------------------------------------------------------------
(* State machine *)

Init ==
  /\ store = <<>>
  /\ doc = [p \in Procs |-> NoDoc]
  /\ pc = [p \in Procs |-> "idle"]
  /\ nextCalls = [p \in Procs |-> <<>>]
  /\ lookup = [p \in Procs |-> "none"]
  /\ error = [p \in Procs |-> Err(NoError, 0)]
  /\ today = 1
  /\ nextId = 1
  /\ breakdown = [p \in Procs |-> NoBreakdown]
  /\ inventory = InitialInventory
  /\ request = [p \in Procs |-> NoRequest]
  /\ users = InitialUsers
  /\ affiliateCheck = NoCheck

\* save() has been called on a document held by p.
BeginSave(p, d) ==
  /\ doc' = [doc EXCEPT ![p] = d]
  /\ pc' = [pc EXCEPT ![p] = "hook"]
  /\ nextCalls' = [nextCalls EXCEPT ![p] = <<>>]
  /\ lookup' = [lookup EXCEPT ![p] = "none"]
  /\ error' = [error EXCEPT ![p] = Err(NoError, 0)]
  /\ breakdown' = [breakdown EXCEPT ![p] = NoBreakdown]

\* new CustomerBill(data).save()
NewCustomerBill(p, data) ==
  /\ pc[p] = "idle"
  /\ BeginSave(p, NewDocument(nextId, data))
  /\ nextId' = nextId + 1
  /\ UNCHANGED <<store, today>>
  /\ UNCHANGED sideVars

\* POST /bills up to the first save, or its 400 answer.
PostBills(p, body) ==
  /\ pc[p] = "idle"
  /\ IF RouteValidation(body).message # OK
     THEN /\ pc' = [pc EXCEPT ![p] = "failed"]
          /\ error' = [error EXCEPT ![p] = RouteValidation(body)]
          /\ UNCHANGED <<doc, nextCalls, lookup, nextId, breakdown>>
     ELSE /\ BeginSave(p, NewDocument(nextId, CustomerBillData(body)))
          /\ nextId' = nextId + 1
  /\ UNCHANGED <<store, today>>
  /\ UNCHANGED sideVars

\* The same request handled by the second copy of the router.
PostBills2(p, body) ==
  /\ pc[p] = "idle"
  /\ IF RouteValidation2(body).message # OK
     THEN /\ pc' = [pc EXCEPT ![p] = "failed"]
          /\ error' = [error EXCEPT ![p] = RouteValidation2(body)]
          /\ UNCHANGED <<doc, nextCalls, lookup, nextId, breakdown>>
     ELSE /\ BeginSave(p, NewDocument(nextId, CustomerBillData(body)))
          /\ nextId' = nextId + 1
  /\ UNCHANGED <<store, today>>
  /\ UNCHANGED sideVars

\* The pre-save hook has run to its end with the given lookup outcome.
RunHook(p, ok, rnd, how) ==
  LET r == PreSaveHook(doc[p], store, today, ok, rnd)
  IN /\ doc' = [doc EXCEPT ![p] = r.doc]
     /\ nextCalls' = [nextCalls EXCEPT ![p] = r.calls]
     /\ lookup' = [lookup EXCEPT ![p] = how]
     /\ IF HookResult(r.calls) = OK
        THEN /\ pc' = [pc EXCEPT ![p] = "write"]
             /\ UNCHANGED error
        ELSE /\ pc' = [pc EXCEPT ![p] = "failed"]
             /\ error' = [error EXCEPT ![p] = Err(HookResult(r.calls), 0)]
     /\ UNCHANGED <<store, today, nextId, breakdown>>
     /\ UNCHANGED sideVars

PreSaveSequence(p) ==
  /\ pc[p] = "hook"
  /\ ShouldGenerate(doc[p])
  /\ RunHook(p, TRUE, 0, "ok")

PreSaveFallback(p, rnd) ==
  /\ pc[p] = "hook"
  /\ ShouldGenerate(doc[p])
  /\ RunHook(p, FALSE, rnd, "failed")

PreSaveExisting(p) ==
  /\ pc[p] = "hook"
  /\ ~ShouldGenerate(doc[p])
  /\ RunHook(p, TRUE, 0, "none")

\* The insert or update reaches the collection.
Commit(p) ==
  /\ pc[p] = "write"
  /\ IF doc[p].isNew /\ DuplicateKey(store, doc[p])
     THEN /\ pc' = [pc EXCEPT ![p] = "failed"]
          /\ error' = [error EXCEPT ![p] = Err(ErrDuplicateKey, 0)]
          /\ UNCHANGED <<store, doc>>
     ELSE /\ store' = WriteDocument(store, doc[p])
          /\ doc' = [doc EXCEPT ![p] = Stored(doc[p])]
          /\ pc' = [pc EXCEPT ![p] = "saved"]
          /\ UNCHANGED error
  /\ UNCHANGED <<nextCalls, lookup, today, nextId, breakdown>>
  /\ UNCHANGED sideVars

SendWhatsApp(p) ==
  /\ pc[p] = "saved"
  /\ ~doc[p].whatsappSent
  /\ BeginSave(p, [doc[p] EXCEPT !.whatsappSent = TRUE])
  /\ UNCHANGED <<store, today, nextId>>
  /\ UNCHANGED sideVars

ItemInputs(items) ==
  [i \in 1..Len(items) |->
     <<items[i].quantity, items[i].unitPrice, items[i].discount>>]

\* A later holder of a persisted document changes its items and discount and
\* saves.  POST /bills has by then run sendWhatsApp on the document, and an
\* assignment that changes nothing is not an update.
UpdateBill(p, body) ==
  /\ pc[p] = "saved"
  /\ doc[p].whatsappSent
  /\ \/ ItemInputs(doc[p].items) # ItemInputs(body.items)
     \/ doc[p].discountAmount # body.discountAmount
  /\ BeginSave(p, [doc[p] EXCEPT !.items = body.items,
                                 !.discountAmount = body.discountAmount])
  /\ UNCHANGED <<store, today, nextId>>
  /\ UNCHANGED sideVars

\* A later holder of a persisted document empties its billNumber and saves.
ClearBillNumber(p) ==
  /\ pc[p] = "saved"
  /\ doc[p].whatsappSent
  /\ doc[p].billNumber # NoNumber
  /\ BeginSave(p, [doc[p] EXCEPT !.billNumber = NoNumber])
  /\ UNCHANGED <<store, today, nextId>>
  /\ UNCHANGED sideVars

\* The breakdown of the saved bill is built for the answer.
BillBreakdown(p) ==
  /\ pc[p] = "saved"
  /\ breakdown[p] = NoBreakdown
  /\ breakdown' = [breakdown EXCEPT ![p] = GetBillBreakdown(doc[p])]
  /\ UNCHANGED <<store, doc, pc, nextCalls, lookup, error, today, nextId>>
  /\ UNCHANGED sideVars

\* The request ends; its document is dropped.
Release(p) ==
  /\ pc[p] \in {"saved", "failed"}
  /\ doc' = [doc EXCEPT ![p] = NoDoc]
  /\ pc' = [pc EXCEPT ![p] = "idle"]
  /\ nextCalls' = [nextCalls EXCEPT ![p] = <<>>]
  /\ lookup' = [lookup EXCEPT ![p] = "none"]
  /\ error' = [error EXCEPT ![p] = Err(NoError, 0)]
  /\ breakdown' = [breakdown EXCEPT ![p] = NoBreakdown]
  /\ UNCHANGED <<store, today, nextId>>
  /\ UNCHANGED sideVars

\* The date is read only when a number is allocated, and only the equality
\* of two dates matters to the lookup: the clock moves on while a bill can
\* still be created, and only from a day a bill was numbered on.
DayUsed(t) ==
  \/ \E i \in DOMAIN store : StartsWith(store[i].billNumber, BillPrefix(t))
  \/ \E p \in Procs : StartsWith(doc[p].billNumber, BillPrefix(t))

NextDay ==
  /\ today < NumDays
  /\ nextId <= MaxBills
  /\ DayUsed(today)
  /\ today' = today + 1
  /\ UNCHANGED <<store, doc, pc, nextCalls, lookup, error, nextId, breakdown>>
  /\ UNCHANGED sideVars

Next ==
  \/ \E p \in Procs : \E body \in NarrowBodies :
       nextId <= MaxBills /\ PostBills(p, body)
  \/ \E p \in Procs : PreSaveSequence(p)
  \/ \E p \in Procs : \E rnd \in RandomOutcomes : PreSaveFallback(p, rnd)
  \/ \E p \in Procs : PreSaveExisting(p)
  \/ \E p \in Procs : Commit(p)
  \/ \E p \in Procs : SendWhatsApp(p)
  \/ \E p \in Procs : \E body \in UpdateBodies : UpdateBill(p, body)
  \/ \E p \in Procs : Release(p)
  \/ NextDay

Spec == Init /\ [][Next]_vars

\* One caller and the first document of the store, every pooled bill.
NextCalc ==
  \/ \E data \in WideData \cup SuppliedData(today) :
       nextId = 1 /\ NewCustomerBill(1, data)
  \/ \E body \in WideData : nextId = 1 /\ PostBills(1, body)
  \/ PreSaveSequence(1)
  \/ \E rnd \in WideRandomOutcomes : PreSaveFallback(1, rnd)
  \/ PreSaveExisting(1)
  \/ Commit(1)
  \/ SendWhatsApp(1)
  \/ BillBreakdown(1)
  \/ \E body \in WideUpdateBodies : UpdateBill(1, body)
  \/ ClearBillNumber(1)
  \/ Release(1)
  \/ NextDay

SpecCalc == Init /\ [][NextCalc]_vars

\* One caller, every pooled request body, bills created by the routes only.
NextRoute ==
  \/ \E body \in WideData : nextId = 1 /\ PostBills(1, body)
  \/ \E body \in WideData : nextId = 1 /\ PostBills2(1, body)
  \/ PreSaveSequence(1)
  \/ \E rnd \in WideRandomOutcomes : PreSaveFallback(1, rnd)
  \/ PreSaveExisting(1)
  \/ Commit(1)
  \/ SendWhatsApp(1)
  \/ BillBreakdown(1)
  \/ Release(1)
  \/ NextDay

SpecRoute == Init /\ [][NextRoute]_vars

\* One caller of the model, bills whose items may lack a field.
NextCoerce ==
  \/ \E data \in CoerceData : nextId = 1 /\ NewCustomerBill(1, data)
  \/ PreSaveSequence(1)
  \/ \E rnd \in RandomOutcomes : PreSaveFallback(1, rnd)
  \/ PreSaveExisting(1)
  \/ Commit(1)
  \/ SendWhatsApp(1)
  \/ Release(1)
  \/ NextDay

SpecCoerce == Init /\ [][NextCoerce]_vars

\* The bills of day 1 up to a given sequence number have been created, one
\* after the other; of them the store keeps the last, the one the lookup
\* returns.
SeedBill(seq) ==
  Stored(CalculateTotals(
    [NewDocument(1, [billNumber |-> NoNumber, items |-> <<ItemA>>,
                     discountAmount |-> 0])
       EXCEPT !.billNumber =
                BillPrefix(1) \o PadStart(NumToString(seq), 4, "0")]).doc)

SeedSequences == {1, 9998, 9999}

SeedStores == {<<>>} \cup {<<SeedBill(seq)>> : seq \in SeedSequences}

InitSeq ==
  /\ store \in SeedStores
  /\ doc = [p \in Procs |-> NoDoc]
  /\ pc = [p \in Procs |-> "idle"]
  /\ nextCalls = [p \in Procs |-> <<>>]
  /\ lookup = [p \in Procs |-> "none"]
  /\ error = [p \in Procs |-> Err(NoError, 0)]
  /\ today = 1
  /\ nextId = Len(store) + 1
  /\ breakdown = [p \in Procs |-> NoBreakdown]
  /\ inventory = InitialInventory
  /\ request = [p \in Procs |-> NoRequest]
  /\ users = InitialUsers
  /\ affiliateCheck = NoCheck

\* One caller, one request after the other, the lookup never fails.
NextSeq ==
  \/ \E body \in NarrowBodies : nextId <= MaxBills + 1 /\ PostBills(1, body)
  \/ PreSaveSequence(1)
  \/ PreSaveExisting(1)
  \/ Commit(1)
  \/ SendWhatsApp(1)
  \/ Release(1)

SpecSeq == InitSeq /\ [][NextSeq]_vars

----------------------------------------------------------------------------
(* POST /bills with its inventory steps and its answer *)

StockItem(q) == Item(q, 10, 0)

\* Requests of an affiliate: two lines on record 1 that pass the check one
\* by one, one line within the stock, a line on a missing record, a line
\* above the stock, an invalid item, and an affiliate without inventory
\* management.
StockBodies ==
  { [items |-> <<StockItem(2), StockItem(2)>>, links |-> <<1, 1>>,
     discountAmount |-> 0, managed |-> TRUE],
    [items |-> <<StockItem(2)>>, links |-> <<1>>,
     discountAmount |-> 0, managed |-> TRUE],
    [items |-> <<StockItem(1), StockItem(2)>>, links |-> <<0, MissingId>>,
     discountAmount |-> 0, managed |-> TRUE],
    [items |-> <<StockItem(InitialStock + 1)>>, links |-> <<1>>,
     discountAmount |-> 0, managed |-> TRUE],
    [items |-> <<StockItem(2), ItemX>>, links |-> <<1, 0>>,
     discountAmount |-> 0, managed |-> TRUE],
    [items |-> <<StockItem(InitialStock + 1)>>, links |-> <<1>>,
     discountAmount |-> 0, managed |-> FALSE] }

\* The handler up to its first save, or its 400 answer.  The copy of the
\* router is 1 (lines 208-470) or 2 (lines 909-1058).
PostBillsStock(p, copy, body) ==
  LET v == IF copy = 1 THEN RouteValidation(body) ELSE RouteValidation2(body)
      s == StockError(copy, body.managed, Lines(body), inventory)
  IN /\ pc[p] = "idle"
     /\ request[p] = NoRequest
     /\ IF v.message # OK \/ s # OK
        THEN /\ pc' = [pc EXCEPT ![p] = "failed"]
             /\ error' = [error EXCEPT ![p] =
                            IF v.message # OK THEN v ELSE Err(s, 0)]
             /\ request' = [request EXCEPT ![p] = NewRequest(copy, body, 400)]
             /\ UNCHANGED <<doc, nextCalls, lookup, nextId, breakdown>>
        ELSE /\ BeginSave(p, NewDocument(nextId, CustomerBillData(body)))
             /\ nextId' = nextId + 1
             /\ request' = [request EXCEPT ![p] = NewRequest(copy, body, 0)]
     /\ UNCHANGED <<store, today, inventory, users, affiliateCheck>>

\* The first save has returned and the handler has not ended.
StockLoopReachedEarly(p) ==
  /\ pc[p] \in {"hook", "write", "saved"}
  /\ ~doc[p].whatsappSent
  /\ request[p].status = 0
  /\ ~request[p].aborted

StockLoopReached(p) ==
  /\ pc[p] = "saved"
  /\ ~doc[p].whatsappSent
  /\ request[p].status = 0
  /\ ~request[p].aborted

\* Inventory.findById for line k of the update loop.
StockFind(p) ==
  /\ StockLoopReached(p)
  /\ request[p].managed
  /\ request[p].k <= Len(request[p].lines)
  /\ request[p].held = NoRecord
  /\ LET id == request[p].lines[request[p].k].inventoryItemId
     IN request' = [request EXCEPT ![p] =
                      IF FindById(inventory, id) = NoRecord
                      THEN [@ EXCEPT !.k = @ + 1]
                      ELSE [@ EXCEPT !.held = FindById(inventory, id)]]
  /\ UNCHANGED <<store, doc, pc, nextCalls, lookup, error, today, nextId,
                 breakdown, inventory, users, affiliateCheck>>

\* updateStock on the record read, and its save; the save may fail.
StockSave(p, ok) ==
  /\ StockLoopReached(p)
  /\ request[p].held # NoRecord
  /\ LET line == request[p].lines[request[p].k]
     IN IF ok
        THEN /\ inventory' =
                  [inventory EXCEPT ![line.inventoryItemId] =
                     UpdateStock(request[p].held, line.quantity)]
             /\ request' = [request EXCEPT ![p] =
                  [@ EXCEPT !.k = @ + 1, !.held = NoRecord]]
        ELSE /\ request' = [request EXCEPT ![p] =
                  IF request[p].copy = 1
                  THEN [@ EXCEPT !.k = @ + 1, !.held = NoRecord]
                  ELSE [@ EXCEPT !.held = NoRecord, !.aborted = TRUE]]
             /\ UNCHANGED inventory
  /\ UNCHANGED <<store, doc, pc, nextCalls, lookup, error, today, nextId,
                 breakdown, users, affiliateCheck>>

\* generatePDF assigns pdfPath; then sendWhatsApp saves the document again.
SendWhatsAppStock(p) ==
  /\ StockLoopReached(p)
  /\ request[p].managed => request[p].k > Len(request[p].lines)
  /\ SendWhatsApp(p)

\* The save of sendWhatsApp fails at the write.
SendWhatsAppFails(p) ==
  /\ pc[p] = "write"
  /\ ~doc[p].isNew
  /\ pc' = [pc EXCEPT ![p] = "saved"]
  /\ request' = [request EXCEPT ![p] =
                   IF request[p].copy = 1
                   THEN @
                   ELSE [@ EXCEPT !.aborted = TRUE]]
  /\ UNCHANGED <<store, doc, nextCalls, lookup, error, today, nextId,
                 breakdown, inventory, users, affiliateCheck>>

\* The answer: 201 with the breakdown, or what the catch block sends.
AnswerStock(p) ==
  /\ request[p].status = 0
  /\ request[p].copy # 0
  /\ \/ /\ pc[p] = "failed"
        /\ request' = [request EXCEPT ![p].status =
                         IF request[p].copy = 1
                              /\ error[p].message = ErrDuplicateKey
                         THEN 400 ELSE 500]
        /\ UNCHANGED breakdown
     \/ /\ pc[p] = "saved"
        /\ request[p].aborted
        /\ request' = [request EXCEPT ![p].status = 500]
        /\ UNCHANGED breakdown
     \/ /\ pc[p] = "saved"
        /\ doc[p].whatsappSent
        /\ ~request[p].aborted
        /\ request' = [request EXCEPT ![p].status = 201]
        /\ breakdown' = [breakdown EXCEPT ![p] = GetBillBreakdown(doc[p])]
  /\ UNCHANGED <<store, doc, pc, nextCalls, lookup, error, today, nextId,
                 inventory, users, affiliateCheck>>

ReleaseStock(p) ==
  /\ request[p].status # 0
  /\ doc' = [doc EXCEPT ![p] = NoDoc]
  /\ pc' = [pc EXCEPT ![p] = "idle"]
  /\ nextCalls' = [nextCalls EXCEPT ![p] = <<>>]
  /\ lookup' = [lookup EXCEPT ![p] = "none"]
  /\ error' = [error EXCEPT ![p] = Err(NoError, 0)]
  /\ breakdown' = [breakdown EXCEPT ![p] = NoBreakdown]
  /\ request' = [request EXCEPT ![p] = NoRequest]
  /\ UNCHANGED <<store, today, nextId, inventory, users, affiliateCheck>>

\* Two callers at a time.
StockCallers == {1, NumProcs}

NextStock ==
  \/ \E p \in StockCallers : \E copy \in {1, 2} : \E body \in StockBodies :
       nextId <= MaxBills /\ PostBillsStock(p, copy, body)
  \/ \E p \in StockCallers : PreSaveSequence(p)
  \/ \E p \in StockCallers : PreSaveExisting(p)
  \/ \E p \in StockCallers : Commit(p)
  \/ \E p \in StockCallers : StockFind(p)
  \/ \E p \in StockCallers : \E ok \in BOOLEAN : StockSave(p, ok)
  \/ \E p \in StockCallers : SendWhatsAppStock(p)
  \/ \E p \in StockCallers : SendWhatsAppFails(p)
  \/ \E p \in StockCallers : AnswerStock(p)
  \/ \E p \in StockCallers : ReleaseStock(p)

SpecStock == Init /\ [][NextStock]_vars

----------------------------------------------------------------------------
(* Accounts: routes/auth.js, and checkAffiliate before every affiliate route *)

billVars ==
  <<store, doc, pc, nextCalls, lookup, error, today, nextId, breakdown,
    inventory, request>>

UserTypes == {"user", "affiliate"}

\* POST /register: an affiliate waits for approval and gets no token.
Register(userType) ==
  /\ Len(users) < 1 + MaxUsers
  /\ users' = Append(users,
                IF userType = "affiliate"
                THEN User("affiliate", "pending", "pending", FALSE)
                ELSE User("user", "active", "pending", TRUE))
  /\ affiliateCheck' = NoCheck
  /\ UNCHANGED billVars

\* POST /login with the right password: refused for a deactivated account
\* and for an affiliate whose status is pending.
Login(id) ==
  /\ id \in DOMAIN users
  /\ users[id].status # "inactive"
  /\ ~(users[id].userType = "affiliate" /\ users[id].status = "pending")
  /\ users' = [users EXCEPT ![id].token = TRUE]
  /\ affiliateCheck' = NoCheck
  /\ UNCHANGED billVars

IsSuperAdmin(id) ==
  id \in DOMAIN users /\ users[id].token /\ users[id].userType = "superadmin"

\* POST /admin/approve-affiliate/:affiliateId
ApproveAffiliate(admin, id, action) ==
  /\ IsSuperAdmin(admin)
  /\ id \in DOMAIN users
  /\ users[id].userType = "affiliate"
  /\ users' = [users EXCEPT ![id] =
                 IF action = "approve"
                 THEN [@ EXCEPT !.status = "active",
                                !.approvalStatus = "approved"]
                 ELSE [@ EXCEPT !.status = "inactive",
                                !.approvalStatus = "rejected"]]
  /\ affiliateCheck' = NoCheck
  /\ UNCHANGED billVars

\* POST /admin/toggle-user-status/:userId
ToggleUserStatus(admin, id, status) ==
  /\ IsSuperAdmin(admin)
  /\ id \in DOMAIN users
  /\ users[id].userType # "superadmin"
  /\ users' = [users EXCEPT ![id].status = status]
  /\ affiliateCheck' = NoCheck
  /\ UNCHANGED billVars

\* A request to an affiliate route by the holder of a token: authenticateToken
\* passes it and checkAffiliate answers.
AffiliateRequest(id) ==
  /\ id \in DOMAIN users
  /\ users[id].token
  /\ affiliateCheck' = [user |-> id, code |-> CheckAffiliate(users, id)]
  /\ UNCHANGED users
  /\ UNCHANGED billVars

UserIds == 1..(1 + MaxUsers)

NextAuth ==
  \/ \E userType \in UserTypes : Register(userType)
  \/ \E id \in UserIds : Login(id)
  \/ \E admin \in UserIds : \E id \in UserIds :
       \E action \in {"approve", "reject"} : ApproveAffiliate(admin, id, action)
  \/ \E admin \in UserIds : \E id \in UserIds :
       \E status \in {"active", "inactive"} : ToggleUserStatus(admin, id, status)
  \/ \E id \in UserIds : AffiliateRequest(id)

SpecAuth == Init /\ [][NextAuth]_vars

----------------------------------------------------------------------------
(* Properties *)

RECURSIVE SumGross(_)
SumGross(items) ==
  IF items = <<>> THEN 0
  ELSE Head(items).quantity * Head(items).unitPrice + SumGross(Tail(items))

RECURSIVE SumDiscount(_)
SumDiscount(items) ==
  IF items = <<>> THEN 0 ELSE Head(items).discount + SumDiscount(Tail(items))

ClampedDifference(a, b) == IF a - b < 0 THEN 0 ELSE a - b

ItemNet(item) == ClampedDifference(item.quantity * item.unitPrice, item.discount)

\* The hook of p has passed, or its document has been written.
PassedHook(p) == pc[p] \in {"write", "saved"}

ValidInputs(d) ==
  /\ d.items # <<>>
  /\ \A i \in 1..Len(d.items) :
       d.items[i].quantity > 0 /\ d.items[i].unitPrice >= 0
         /\ d.items[i].discount >= 0
  /\ d.discountAmount >= 0

\* C1: for a non-empty list of items with quantity > 0, unitPrice >= 0 and
\* discount >= 0 and an additional discount >= 0, a successful save pass sets
\* subtotal to the sum of quantity * unitPrice, totalItemDiscounts to the sum
\* of the discounts and totalAmount to max(0, subtotal - totalItemDiscounts -
\* discountAmount); the bill (2,10,0), (1,5,1) with discount 2 gets 25, 1, 22.
C1_Aggregation ==
  \A p \in Procs :
    PassedHook(p) /\ ValidInputs(doc[p]) =>
      /\ doc[p].subtotal = SumGross(doc[p].items)
      /\ doc[p].totalItemDiscounts = SumDiscount(doc[p].items)
      /\ doc[p].totalAmount =
           ClampedDifference(doc[p].subtotal,
                             doc[p].totalItemDiscounts + doc[p].discountAmount)
      /\ ( ItemInputs(doc[p].items) = << <<2, 10, 0>>, <<1, 5, 1>> >>
             /\ doc[p].discountAmount = 2
           => doc[p].subtotal = 25 /\ doc[p].totalItemDiscounts = 1
                /\ doc[p].totalAmount = 22 )

C1_Witness ==
  \E i \in DOMAIN store :
    /\ ItemInputs(store[i].items) = << <<2, 10, 0>>, <<1, 5, 1>> >>
    /\ store[i].discountAmount = 2
    /\ store[i].subtotal = 25 /\ store[i].totalAmount = 22

Consistent(b) ==
  /\ b.subtotal = SumGross(b.items)
  /\ b.totalItemDiscounts = SumDiscount(b.items)
  /\ b.totalAmount =
       ClampedDifference(b.subtotal, b.totalItemDiscounts + b.discountAmount)
  /\ \A i \in 1..Len(b.items) : b.items[i].totalPrice = ItemNet(b.items[i])

\* C2: after any sequence of creations, re-saves (sendWhatsApp included) and
\* rejected saves, every bill of the store is consistent with its own stored
\* items: subtotal, totalItemDiscounts, totalAmount and every item's
\* totalPrice are the values derived from them.
C2_StoreConsistent == \A i \in DOMAIN store : Consistent(store[i])

\* A re-save of a persisted bill was rejected and has left the document in
\* memory changed, while the store still holds a re-saved, consistent bill.
C2_Witness ==
  \E p \in Procs :
    /\ pc[p] = "failed" /\ error[p].message = ErrItem
    /\ doc[p].id \in DOMAIN store
    /\ store[doc[p].id].whatsappSent
    /\ doc[p].subtotal # store[doc[p].id].subtotal

\* C3: after the save pass of a bill that passes line-item validation every
\* item's totalPrice is >= 0 and totalAmount is >= 0; an item whose discount
\* exceeds its gross has totalPrice 0 and a bill whose discounts exceed the
\* subtotal has totalAmount 0.
C3_NonNegative ==
  \A p \in Procs :
    PassedHook(p) =>
      /\ \A i \in 1..Len(doc[p].items) :
           /\ doc[p].items[i].totalPrice >= 0
           /\ ( doc[p].items[i].discount >
                  doc[p].items[i].quantity * doc[p].items[i].unitPrice
                => doc[p].items[i].totalPrice = 0 )
      /\ doc[p].totalAmount >= 0
      /\ ( doc[p].totalItemDiscounts + doc[p].discountAmount > doc[p].subtotal
           => doc[p].totalAmount = 0 )

C3_Witness ==
  \E p \in Procs :
    /\ pc[p] = "saved"
    /\ \E i \in 1..Len(doc[p].items) :
         /\ doc[p].items[i].discount >
              doc[p].items[i].quantity * doc[p].items[i].unitPrice
         /\ doc[p].items[i].totalPrice = 0
    /\ doc[p].totalItemDiscounts + doc[p].discountAmount > doc[p].subtotal
    /\ doc[p].totalAmount = 0

\* C4: in a save pass that succeeds, every item's totalPrice becomes
\* max(0, quantity * unitPrice - discount) of that item's own quantity,
\* unitPrice and discount, whatever totalPrice it carried before the pass,
\* and the three inputs are left as they were; (2, 10, 100) gets 0.
C4_NetRecomputed ==
  [][ \A p \in Procs :
        pc[p] = "hook" /\ pc'[p] = "write" =>
          /\ Len(doc'[p].items) = Len(doc[p].items)
          /\ \A i \in 1..Len(doc[p].items) :
               /\ doc'[p].items[i] =
                    [doc[p].items[i] EXCEPT !.totalPrice = ItemNet(doc[p].items[i])]
               /\ ( <<doc[p].items[i].quantity, doc[p].items[i].unitPrice,
                      doc[p].items[i].discount>> = <<2, 10, 100>>
                    => doc'[p].items[i].totalPrice = 0 ) ]_vars

\* A caller-supplied totalPrice of 999 on the item (2, 10, 100) was replaced.
C4_Witness ==
  \E p \in Procs :
    /\ pc[p] = "saved" /\ lookup[p] # "none"
    /\ \E i \in 1..Len(doc[p].items) :
         doc[p].items[i] =
           [quantity |-> 2, unitPrice |-> 10, discount |-> 100, totalPrice |-> 0]
    /\ \E i \in 1..Len(doc[p].items) : doc[p].items[i].discount < 0

\* C5: a save pass over a persisted bill whose items and discountAmount are
\* those of its last save succeeds and yields the values of that save: every
\* item's totalPrice, subtotal, totalItemDiscounts, discountAmount and
\* totalAmount are the stored ones.
C5_Idempotent ==
  [][ \A p \in Procs :
        ( /\ pc[p] = "hook" /\ pc'[p] # "hook"
          /\ doc[p].id \in DOMAIN store
          /\ ItemInputs(doc[p].items) = ItemInputs(store[doc[p].id].items)
          /\ doc[p].discountAmount = store[doc[p].id].discountAmount )
        => /\ pc'[p] = "write"
           /\ doc'[p].items = store[doc[p].id].items
           /\ doc'[p].subtotal = store[doc[p].id].subtotal
           /\ doc'[p].totalItemDiscounts = store[doc[p].id].totalItemDiscounts
           /\ doc'[p].discountAmount = store[doc[p].id].discountAmount
           /\ doc'[p].totalAmount = store[doc[p].id].totalAmount ]_vars

\* The second pass, issued by sendWhatsApp, has run over an unchanged bill.
C5_Witness ==
  \E p \in Procs :
    /\ pc[p] = "write" /\ doc[p].whatsappSent
    /\ doc[p].id \in DOMAIN store
    /\ ~store[doc[p].id].whatsappSent
    /\ doc[p].subtotal > 0
    /\ ItemInputs(doc[p].items) = ItemInputs(store[doc[p].id].items)

\* C6: a persisted bill keeps its billNumber through every later step: no
\* save of that bill or of another bill changes it, and the bill stays in
\* the store.
C6_NumberImmutable ==
  [][ \A i \in DOMAIN store :
        i \in DOMAIN store' /\ store'[i].billNumber = store[i].billNumber ]_vars

\* Bill 1 was saved again with changed items after bill 2 had been created.
C6_Witness ==
  /\ DOMAIN store = {1, 2}
  /\ store[1].whatsappSent
  /\ ItemInputs(store[1].items) = << <<2, 10, 100>> >>
  /\ store[1].discountAmount = 30

Pad4(n) ==
  <<DigitChar(n \div 1000), DigitChar((n \div 100) % 10),
    DigitChar((n \div 10) % 10), DigitChar(n % 10)>>

AtLeast4(n) ==
  IF n < 10000 THEN Pad4(n) ELSE <<DigitChar(n \div 10000)>> \o Pad4(n % 10000)

DayPrefix(t) ==
  <<"B", "I", "L", "L", "2", "0", "2", "5", "0", "6",
    DigitChar((14 + t) \div 10), DigitChar((14 + t) % 10)>>

NumbersOfDay(st, t) ==
  {n \in {st[i].billNumber : i \in DOMAIN st} :
     Len(n) >= 12 /\ \A k \in 1..12 : n[k] = DayPrefix(t)[k]}

BillsOfDay(st, t) ==
  Cardinality({i \in DOMAIN st : st[i].billNumber \in NumbersOfDay(st, t)})

EndsInFourDigits(n) ==
  Len(n) >= 4 /\ \A k \in (Len(n) - 3)..Len(n) : n[k] \in Digits

Value4(n) ==
  1000 * DigitVal(n[Len(n) - 3]) + 100 * DigitVal(n[Len(n) - 2])
    + 10 * DigitVal(n[Len(n) - 1]) + DigitVal(n[Len(n)])

\* The hook of p ends in this step and its lookup of the day's bills succeeded.
AllocatedBySequence(p) == pc[p] = "hook" /\ lookup'[p] = "ok"

\* C7 as claimed: a new bill saved without an identifier, when the lookup
\* succeeds, gets "BILL" + YYYYMMDD + a sequence of exactly 4 digits, the
\* sequence being the count of bills already persisted for that day plus one.
C7_CountPlusOne ==
  [][ \A p \in Procs :
        AllocatedBySequence(p) =>
          /\ BillsOfDay(store, today) + 1 < 10000
          /\ doc'[p].billNumber =
               DayPrefix(today) \o Pad4(BillsOfDay(store, today) + 1) ]_vars

\* C7 as amended: the sequence is one more than the number in the last four
\* characters of the greatest persisted billNumber of that day (1 when the
\* day has none), zero-padded to at least 4 digits.
C7_LastPlusOne ==
  [][ \A p \in Procs :
        AllocatedBySequence(p)
          /\ (\A n \in NumbersOfDay(store, today) : EndsInFourDigits(n))
        => IF NumbersOfDay(store, today) = {}
           THEN doc'[p].billNumber = DayPrefix(today) \o <<"0", "0", "0", "1">>
           ELSE \E last \in NumbersOfDay(store, today) :
                  /\ \A m \in NumbersOfDay(store, today) : ~StrLess(last, m)
                  /\ doc'[p].billNumber =
                       DayPrefix(today) \o AtLeast4(Value4(last) + 1) ]_vars

\* The day's only persisted bill has the fallback number 0007 and the next
\* bill was given 0008 by the lookup.
C7_Witness ==
  \E p \in Procs :
    /\ lookup[p] = "ok"
    /\ doc[p].billNumber = DayPrefix(today) \o <<"0", "0", "0", "8">>
    /\ BillsOfDay(store, today) = 1
    /\ \E i \in DOMAIN store :
         store[i].billNumber = DayPrefix(today) \o <<"0", "0", "0", "7">>

\* C8: two creations whose numbers both came from a successful lookup of the
\* day's last bill never hold the same billNumber.
C8_UniquePerCreation ==
  \A p, q \in Procs :
    p # q /\ lookup[p] = "ok" /\ lookup[q] = "ok"
      => doc[p].billNumber # doc[q].billNumber

\* C9: no two bills of the store have the same billNumber, and a creation
\* rejected for a duplicate key has persisted nothing.
C9_StoreUnique ==
  /\ \A i, j \in DOMAIN store :
       i # j => store[i].billNumber # store[j].billNumber
  /\ \A p \in Procs :
       error[p].message = ErrDuplicateKey =>
         pc[p] = "failed" /\ doc[p].id \notin DOMAIN store

\* A creation was rejected because its number is the one of a persisted bill.
C9_Witness ==
  \E p \in Procs :
    /\ error[p].message = ErrDuplicateKey
    /\ doc[p].id \notin DOMAIN store
    /\ \E i \in DOMAIN store : store[i].billNumber = doc[p].billNumber

\* C10: a save of a bill whose items list is empty is rejected with the
\* empty-bill error, only that error is reported, and no bill of the store
\* has an empty items list.
C10_EmptyRejected ==
  /\ \A p \in Procs :
       pc[p] \in {"write", "saved", "failed"} /\ doc[p].id # 0
         /\ doc[p].items = <<>>
       => /\ pc[p] = "failed"
          /\ error[p] = Err(ErrEmpty, 0)
          /\ nextCalls[p] = <<ErrEmpty>>
          /\ doc[p].id \notin DOMAIN store
  /\ \A i \in DOMAIN store : store[i].items # <<>>

\* An empty bill was rejected after its number had been allocated.
C10_Witness ==
  \E p \in Procs :
    /\ pc[p] = "failed" /\ error[p].message = ErrEmpty
    /\ doc[p].items = <<>> /\ doc[p].discountAmount = 30
    /\ doc[p].billNumber # NoNumber
    /\ store = <<>>

----------------------------------------------------------------------------
(* Invalid line items *)

HookRan(p) == nextCalls[p] # <<>>

HasInvalidItem(d) ==
  \E i \in 1..Len(d.items) :
    ItemInvalid(ParseFloatOrZero(d.items[i].quantity),
                ParseFloatOrZero(d.items[i].unitPrice))

FirstInvalidItem(d) ==
  CHOOSE i \in 1..Len(d.items) :
    /\ ItemInvalid(ParseFloatOrZero(d.items[i].quantity),
                   ParseFloatOrZero(d.items[i].unitPrice))
    /\ \A j \in 1..(i - 1) :
         ~ItemInvalid(ParseFloatOrZero(d.items[j].quantity),
                      ParseFloatOrZero(d.items[j].unitPrice))

\* C11: when the hook has run on a bill that holds an item with
\* quantity <= 0 or unitPrice < 0, at whatever position, the save has failed
\* with the invalid-line-item error, and the pass stopped at that check: the
\* completion callback was invoked once, with that error, and never reported
\* success.
C11_CutShort ==
  \A p \in Procs :
    (HookRan(p) /\ HasInvalidItem(doc[p])) =>
       /\ pc[p] = "failed"
       /\ error[p].message = ErrItem
       /\ nextCalls[p] = <<ErrItem>>

\* C12: the invalid-line-item error of a failed save names the offending
\* item by its 1-based position: the first item whose quantity <= 0 or
\* unitPrice < 0 (position 2 when the second item of a bill has quantity 0).
C12_ErrorNamesItem ==
  \A p \in Procs :
    (pc[p] = "failed" /\ error[p].message = ErrItem) =>
       error[p].item = FirstInvalidItem(doc[p])

----------------------------------------------------------------------------
(* Discounts *)

C14_ItemDiscountNonNegative ==
  \A i \in DOMAIN store :
    /\ \A k \in 1..Len(store[i].items) :
         /\ store[i].items[k].discount >= 0
         /\ store[i].items[k].totalPrice <=
              store[i].items[k].quantity * store[i].items[k].unitPrice
    /\ store[i].totalItemDiscounts >= 0

\* A bill is persisted with one discounted item and one whose discount
\* exceeds its gross amount.
C14_Witness ==
  \E i \in DOMAIN store :
    /\ \E k \in 1..Len(store[i].items) :
         /\ store[i].items[k].discount > 0
         /\ 0 < store[i].items[k].totalPrice
         /\ store[i].items[k].totalPrice <
              store[i].items[k].quantity * store[i].items[k].unitPrice
    /\ \E k \in 1..Len(store[i].items) :
         /\ store[i].items[k].discount >
              store[i].items[k].quantity * store[i].items[k].unitPrice
         /\ store[i].items[k].totalPrice = 0

----------------------------------------------------------------------------
(* Fallback number *)

AllDigits(s) == \A i \in 1..Len(s) : s[i] \in Digits

AllocatedByFallback(p) == pc[p] = "hook" /\ lookup'[p] = "failed"

\* C15: when the lookup of the day's last bill fails while a new bill is
\* created, the bill gets "BILL" + the 8 digits of the date + exactly 4
\* digits, the rest of the pass runs (the totals are those of the items),
\* and the hook does not report that the number could not be generated: a
\* bill with valid items goes on to be written.
C15_FallbackNumber ==
  [][\A p \in Procs :
       AllocatedByFallback(p) =>
          /\ Len(doc'[p].billNumber) = 16
          /\ StartsWith(doc'[p].billNumber, BillPrefix(today))
          /\ AllDigits(SliceLast(doc'[p].billNumber, 12))
          /\ \A n \in 1..Len(nextCalls'[p]) : nextCalls'[p][n] # ErrBillNumber
          /\ (doc'[p].items # <<>> /\ ~HasInvalidItem(doc'[p])) =>
               /\ pc'[p] = "write"
               /\ doc'[p].subtotal = SumGross(doc'[p].items)
               /\ doc'[p].totalItemDiscounts = SumDiscount(doc'[p].items)]_vars

\* A bill numbered by the fallback has been persisted.
C15_Witness ==
  \E p \in Procs :
    /\ lookup[p] = "failed"
    /\ pc[p] = "saved"
    /\ \E i \in DOMAIN store :
         /\ store[i].billNumber = doc[p].billNumber
         /\ SliceLast(store[i].billNumber, 4) \in
              {<<"0", "0", "0", "7">>, <<"9", "9", "9", "9">>}

----------------------------------------------------------------------------
(* Order of the items *)

Perms(n) == {f \in [1..n -> 1..n] : \A i, j \in 1..n : f[i] = f[j] => i = j}

Permute(items, f) == [i \in 1..Len(items) |-> items[f[i]]]

Totals(d) == <<d.subtotal, d.totalItemDiscounts, d.totalAmount>>

----------------------------------------------------------------------------
(* Breakdown *)

BreakdownBuilt(p) == breakdown[p] = NoBreakdown /\ breakdown'[p] # NoBreakdown

\* C17: the breakdown built for a persisted bill lists, per item and in the
\* bill's order, quantity * unitPrice as grossAmount, the item's discount
\* and the stored totalPrice as netAmount; at bill level the stored
\* subtotal, totalItemDiscounts and discountAmount, their sum of discounts
\* as totalDiscounts and the stored totalAmount as finalTotal; building it
\* changes neither the bill nor the store.
C17_BreakdownProjection ==
  [][\A p \in Procs :
       BreakdownBuilt(p) =>
          LET b == breakdown'[p]
              d == doc[p]
          IN /\ \E i \in DOMAIN store : store[i] = d
             /\ Len(b.items) = Len(d.items)
             /\ \A k \in 1..Len(d.items) :
                  /\ b.items[k].grossAmount =
                       d.items[k].quantity * d.items[k].unitPrice
                  /\ b.items[k].itemDiscount = d.items[k].discount
                  /\ b.items[k].netAmount = d.items[k].totalPrice
             /\ b.subtotal = d.subtotal
             /\ b.totalItemDiscounts = d.totalItemDiscounts
             /\ b.additionalDiscount = d.discountAmount
             /\ b.totalDiscounts = d.totalItemDiscounts + d.discountAmount
             /\ b.finalTotal = d.totalAmount
             /\ doc' = doc
             /\ store' = store]_vars

\* A breakdown exists of a bill of two items, one of them with a discount
\* above its gross amount, and with a discount on the bill.
C17_Witness ==
  \E p \in Procs :
    /\ breakdown[p] # NoBreakdown
    /\ Len(breakdown[p].items) = 2
    /\ \E k \in 1..2 :
         /\ breakdown[p].items[k].netAmount = 0
         /\ breakdown[p].items[k].itemDiscount >
              breakdown[p].items[k].grossAmount
    /\ breakdown[p].additionalDiscount > 0

----------------------------------------------------------------------------
(* Checks at the end of the pass *)

\* C18: when the hook has run on a bill whose items all have quantity > 0
\* and unitPrice >= 0, whatever their discounts and the bill's discount, it
\* has reported neither an invalid subtotal nor an invalid total amount.
C18_TotalsChecksNeverFail ==
  \A p \in Procs :
    (HookRan(p) /\ ~HasInvalidItem(doc[p])) =>
       /\ \A n \in 1..Len(nextCalls[p]) :
            nextCalls[p][n] \notin {ErrSubtotal, ErrTotal}
       /\ error[p].message \notin {ErrSubtotal, ErrTotal}

\* The hook has accepted a bill whose discounts exceed its subtotal.
C18_Witness ==
  \E p \in Procs :
    /\ HookRan(p)
    /\ ~HasInvalidItem(doc[p])
    /\ nextCalls[p] = <<OK>>
    /\ doc[p].subtotal > 0
    /\ doc[p].subtotal - doc[p].totalItemDiscounts - doc[p].discountAmount < 0
    /\ doc[p].totalAmount = 0

----------------------------------------------------------------------------
(* Identifier already present *)

SavedWithNumber(p) ==
  pc[p] = "hook" /\ pc'[p] # "hook" /\ doc[p].billNumber # NoNumber

\* C19: the save of a bill that already carries a billNumber, be it a new
\* bill given one by its caller or a bill written before, looks up no
\* earlier bill and leaves billNumber as it was; apart from the totals the
\* rest of the pass computes, every field of the bill is as before.
C19_NumberKept ==
  [][\A p \in Procs :
       SavedWithNumber(p) =>
          /\ lookup'[p] = "none"
          /\ doc'[p].billNumber = doc[p].billNumber
          /\ doc'[p].id = doc[p].id
          /\ doc'[p].isNew = doc[p].isNew
          /\ doc'[p].whatsappSent = doc[p].whatsappSent
          /\ doc'[p].discountAmount = doc[p].discountAmount
          /\ ItemInputs(doc'[p].items) = ItemInputs(doc[p].items)]_vars

\* A new bill has been persisted under the identifier its caller gave it.
C19_Witness ==
  \E p \in Procs :
    /\ pc[p] = "saved"
    /\ lookup[p] = "none"
    /\ ~doc[p].whatsappSent
    /\ doc[p].billNumber \in SuppliedNumbers(today)
    /\ \E i \in DOMAIN store : store[i].billNumber = doc[p].billNumber

----------------------------------------------------------------------------
(* Missing quantity, unit price or discount *)

AsZero(x) == IF x = Undefined THEN 0 ELSE x

ItemAccepted(item) ==
  /\ item.quantity # Undefined
  /\ item.quantity > 0
  /\ item.unitPrice = Undefined \/ item.unitPrice >= 0

CoercedItems(items) ==
  [k \in 1..Len(items) |->
     [items[k] EXCEPT !.unitPrice = AsZero(@), !.discount = AsZero(@)]]

HookEnds(p) == pc[p] = "hook" /\ pc'[p] # "hook"

\* C20: a missing quantity counts as 0 and makes the save fail with the
\* invalid-item error; a missing unitPrice or discount counts as 0 and is
\* accepted, so that the item adds quantity * 0 to subtotal, or 0 to
\* totalItemDiscounts, and its totalPrice is max(0, gross - discount)
\* taken over the values so read.
C20_MissingCountsAsZero ==
  [][\A p \in Procs :
       (HookEnds(p) /\ doc[p].items # <<>>) =>
          /\ (\E k \in 1..Len(doc[p].items) :
                doc[p].items[k].quantity = Undefined) =>
               /\ pc'[p] = "failed"
               /\ error'[p].message = ErrItem
          /\ (\A k \in 1..Len(doc[p].items) : ItemAccepted(doc[p].items[k])) =>
               LET c == CoercedItems(doc[p].items)
               IN /\ pc'[p] = "write"
                  /\ \A k \in 1..Len(c) :
                       doc'[p].items[k].totalPrice =
                         Max0(c[k].quantity * c[k].unitPrice - c[k].discount)
                  /\ doc'[p].subtotal = SumGross(c)
                  /\ doc'[p].totalItemDiscounts = SumDiscount(c)]_vars

\* A bill is accepted with one item without a unitPrice and one without a
\* discount.
C20_Witness ==
  \E p \in Procs :
    /\ pc[p] \in {"write", "saved"}
    /\ \E k \in 1..Len(doc[p].items) :
         /\ doc[p].items[k].unitPrice = Undefined
         /\ doc[p].items[k].discount > 0
         /\ doc[p].items[k].totalPrice = 0
    /\ \E k \in 1..Len(doc[p].items) :
         /\ doc[p].items[k].discount = Undefined
         /\ doc[p].items[k].totalPrice = 20
    /\ doc[p].subtotal = 20
    /\ doc[p].totalItemDiscounts = 1

----------------------------------------------------------------------------
(* Bill without a number *)

InCalls(p, e) == \E n \in 1..Len(nextCalls[p]) : nextCalls[p][n] = e

\* C21: a bill that has no billNumber when the allocation step is over is a
\* bill written before whose number was emptied; its save fails, with 'Bill
\* number generation failed' when its items are valid, and the store keeps
\* the bill as it was, so no stored bill lacks a number.  The hook never
\* reports that error for a new bill.
C21_NumberRequired ==
  /\ \A p \in Procs :
       (HookRan(p) /\ doc[p].billNumber = NoNumber) =>
          /\ ~doc[p].isNew
          /\ pc[p] = "failed"
          /\ doc[p].items # <<>> => InCalls(p, ErrBillNumber)
          /\ (doc[p].items # <<>> /\ ~HasInvalidItem(doc[p])) =>
               error[p].message = ErrBillNumber
          /\ store[doc[p].id].billNumber # NoNumber
  /\ \A p \in Procs : InCalls(p, ErrBillNumber) => ~doc[p].isNew
  /\ \A i \in DOMAIN store : store[i].billNumber # NoNumber

\* The save of a stored bill whose number was emptied has failed for that
\* reason.
C21_Witness ==
  \E p \in Procs :
    /\ pc[p] = "failed"
    /\ error[p].message = ErrBillNumber
    /\ doc[p].billNumber = NoNumber
    /\ doc[p].id \in DOMAIN store

----------------------------------------------------------------------------
(* Calls of the completion callback *)

\* C24: in one run of the pre-save hook the completion callback is invoked
\* exactly once, with an error or without one, whatever the bill, a bill
\* with one or several invalid items included.
C24_NextOnce ==
  \A p \in Procs : HookRan(p) => Len(nextCalls[p]) = 1

----------------------------------------------------------------------------
(* Total and net amounts *)

RECURSIVE SumTotalPrice(_)
SumTotalPrice(items) ==
  IF items = <<>> THEN 0
  ELSE Head(items).totalPrice + SumTotalPrice(Tail(items))

NoExcessDiscount(items) ==
  \A k \in 1..Len(items) :
    items[k].discount <= items[k].quantity * items[k].unitPrice

\* C25 as stated: every persisted bill has totalAmount = max(0, sum of its
\* items' totalPrice - discountAmount), items whose discount exceeds their
\* gross amount included.
C25_TotalFromNets ==
  \A i \in DOMAIN store :
    store[i].totalAmount =
      Max0(SumTotalPrice(store[i].items) - store[i].discountAmount)

\* C25: a persisted bill has totalAmount = max(0, sum of its items'
\* totalPrice - discountAmount) when none of its items has a discount above
\* its gross amount; otherwise its totalAmount is at most that value.
C25_TotalFromNetsNoExcess ==
  \A i \in DOMAIN store :
    /\ NoExcessDiscount(store[i].items) =>
         store[i].totalAmount =
           Max0(SumTotalPrice(store[i].items) - store[i].discountAmount)
    /\ store[i].totalAmount <=
         Max0(SumTotalPrice(store[i].items) - store[i].discountAmount)

\* A persisted bill of two items, with an item discount and a discount on
\* the bill, none of them above what it is taken from.
C25_Witness ==
  \E i \in DOMAIN store :
    /\ Len(store[i].items) = 2
    /\ NoExcessDiscount(store[i].items)
    /\ store[i].totalItemDiscounts > 0
    /\ store[i].discountAmount > 0
    /\ store[i].totalAmount > 0
    /\ store[i].totalAmount < SumTotalPrice(store[i].items)

\* C26: in a persisted bill whose item discounts and discountAmount are all
\* >= 0, totalAmount is at most the sum of the items' totalPrice, which is
\* at most subtotal.
C26_TotalBelowNetsBelowGross ==
  \A i \in DOMAIN store :
    ( /\ \A k \in 1..Len(store[i].items) : store[i].items[k].discount >= 0
      /\ store[i].discountAmount >= 0 ) =>
       /\ store[i].totalAmount <= SumTotalPrice(store[i].items)
       /\ SumTotalPrice(store[i].items) <= store[i].subtotal

\* A persisted bill where both inequalities are strict.
C26_Witness ==
  \E i \in DOMAIN store :
    /\ \A k \in 1..Len(store[i].items) : store[i].items[k].discount >= 0
    /\ store[i].discountAmount > 0
    /\ 0 < store[i].totalAmount
    /\ store[i].totalAmount < SumTotalPrice(store[i].items)
    /\ SumTotalPrice(store[i].items) < store[i].subtotal

----------------------------------------------------------------------------
(* Sequential creation *)

\* C27: when requests are handled one after the other and the lookup never
\* fails, no creation is rejected for a duplicate billNumber, however many
\* bills the day already has.
C27_NoDuplicateSequential ==
  \A p \in Procs :
    ~(pc[p] = "failed" /\ error[p].message = ErrDuplicateKey)

----------------------------------------------------------------------------
(* Inventory *)

RequestArrives(p) == request[p] = NoRequest /\ request'[p] # NoRequest

LineShort(line, inv) ==
  \/ line.inventoryItemId \notin DOMAIN inv
  \/ inv[line.inventoryItemId].availableQuantity < line.quantity

\* C22: a request of an affiliate with inventory management, one of whose
\* inventory lines asks for more than the record's availableQuantity or
\* names a record that does not exist, is answered 400 before a document is
\* built: the hook does not run, no billNumber is allocated, and neither
\* the store nor the inventory changes.
C22_StockCheckedFirst ==
  [][\A p \in Procs :
       ( /\ RequestArrives(p)
         /\ request'[p].managed
         /\ \E i \in 1..Len(request'[p].lines) :
              LineShort(request'[p].lines[i], inventory) ) =>
          /\ pc'[p] = "failed"
          /\ request'[p].status = 400
          /\ doc'[p] = NoDoc
          /\ nextCalls'[p] = <<>>
          /\ nextId' = nextId
          /\ store' = store
          /\ inventory' = inventory]_vars

\* A request is refused for stock that an earlier bill has used up.
C22_Witness ==
  \E p \in Procs :
    /\ pc[p] = "failed"
    /\ error[p].message = ErrStockInsufficient
    /\ request[p].status = 400
    /\ \E i \in 1..Len(request[p].lines) :
         /\ request[p].lines[i].quantity <= InitialStock
         /\ LineShort(request[p].lines[i], inventory)
    /\ store # <<>>

Persisted(p) == doc[p].id \in DOMAIN store /\ ~doc[p].isNew

\* C23: stock is written only by a request whose bill is already in the
\* store, one line of its update loop at a time; the step that rejects a
\* request changes no Inventory record, and a rejected request has run none
\* of its update loop.
C23_StockAfterPersisted ==
  [][ /\ inventory' # inventory =>
           \E p \in Procs :
             /\ pc[p] = "saved"
             /\ Persisted(p)
             /\ request'[p].k = request[p].k + 1
             /\ \A q \in Procs \ {p} : request'[q] = request[q]
      /\ \A p \in Procs :
           pc'[p] = "failed" =>
             /\ request'[p].k = 1
             /\ request'[p].held = NoRecord
             /\ pc[p] # "failed" => inventory' = inventory ]_vars

\* A request is rejected for a duplicate billNumber after the bill that took
\* the number has sold stock.
C23_Witness ==
  \E p \in Procs :
    /\ pc[p] = "failed"
    /\ error[p].message = ErrDuplicateKey
    /\ request[p].managed
    /\ request[p].lines # <<>>
    /\ inventory[1].totalSold > 0

\* C29: no Inventory record is oversold: the quantity sold through the
\* line items of persisted bills (the growth of totalSold, which starts at
\* 0) never exceeds the availableQuantity the record started with.
C29_NeverOversold ==
  \A id \in DOMAIN inventory :
    inventory[id].totalSold <= InitialInventory[id].availableQuantity

Answered(p) == request[p].status # 0

SideStepsDone(p) ==
  /\ request[p].managed => request[p].k > Len(request[p].lines)
  /\ doc[p].whatsappSent

\* C30: once the bill of a request is in the store, the request is answered
\* 201 with the breakdown of the bill, after every line of the update loop
\* and sendWhatsApp have been gone through, whether or not an inventory
\* save or the save of sendWhatsApp failed; and the bill stays in the store.
C30_SideStepsDoNotFail ==
  \A p \in Procs :
    (Answered(p) /\ doc[p] # NoDoc /\ ~doc[p].isNew) =>
      /\ request[p].status = 201
      /\ SideStepsDone(p)
      /\ breakdown[p] = GetBillBreakdown(doc[p])
      /\ doc[p].id \in DOMAIN store

----------------------------------------------------------------------------
(* Accounts *)

\* C28: checkAffiliate lets a request through only for an affiliate whose
\* approvalStatus is approved; for an affiliate whose approvalStatus is
\* pending or rejected it answers 403, whatever register, approve-affiliate
\* and toggle-user-status operations came before.
C28_OnlyApprovedAdmitted ==
  affiliateCheck # NoCheck =>
    LET user == users[affiliateCheck.user]
    IN /\ affiliateCheck.code = 200 =>
            /\ user.userType = "affiliate"
            /\ user.approvalStatus = "approved"
       /\ ( user.userType = "affiliate"
            /\ user.approvalStatus \in {"pending", "rejected"} ) =>
            affiliateCheck.code = 403

====
